---- MODULE Spec2Model ----
(***************************************************************************)
(* Model of scripts/export_lfm2_onnx.py: the export workflow               *)
(* (export_lfm2_to_onnx), its verification sub-step (verify_export), the   *)
(* size report (get_dir_size) and the command-line entry point (main).     *)
(*                                                                         *)
(* Every call into transformers / optimum / the filesystem either returns  *)
(* ("ok") or raises a subclass of Exception ("exc"); the outcome is chosen *)
(* by the environment at the step that makes the call and is recorded in   *)
(* trace.  A save_pretrained call is atomic: it writes its files when it   *)
(* returns and writes nothing when it raises.                              *)
(***************************************************************************)
EXTENDS Integers, Sequences, FiniteSets, TLC

VARIABLES
    pc,         \* position of the running process in the script
    args,       \* argparse namespace of the current invocation
    fs,         \* the output directory on disk (survives the process)
    tokenizer,  \* the in-memory tokenizer object
    trace,      \* <<operation, outcome>> of every external call of this run
    log,        \* messages emitted through logger, in order
    stdout,     \* lines emitted through print, in order
    reported,   \* <<>> or <<h>>: the size logged at line 95, in 1/100 MB
    prev,       \* record of the previous invocation (history)
    sizeResult  \* <<>> or <<h>>: value returned by a direct get_dir_size call

vars == <<pc, args, fs, tokenizer, trace, log, stdout, reported, prev, sizeResult>>

None == "None"

----------------------------------------------------------------------------
(* Inputs and environment                                                  *)

\* model identifiers accepted by --model_id
ModelIds == {"LiquidAI/LFM2-350M", "org/no-pad", "org/no-eos"}

\* what AutoTokenizer.from_pretrained returns for each identifier
HubTokenizer(model_id) ==
    CASE model_id = "LiquidAI/LFM2-350M" ->
            [src |-> model_id, pad_token |-> "<|pad|>", eos_token |-> "<|im_end|>"]
      [] model_id = "org/no-pad" ->
            [src |-> model_id, pad_token |-> None, eos_token |-> "</s>"]
      [] OTHER ->
            [src |-> model_id, pad_token |-> None, eos_token |-> None]

NoTokenizer == [src |-> None, pad_token |-> None, eos_token |-> None]

\* bytes in one reported unit: 1024 * 1024
MB == 1048576

\* file sizes (bytes) the environment may produce
Sizes == {0, 1, 131072, 262144}

TokFileSize == 131072
OnnxFileSize == 262144

\* names of directory entries; "d" names a directory, "f" anything else
DirName == "d"
FileName == "f"
MaxDepth == 3

TokFile == <<"tokenizer_config.json">>
OnnxFile == <<"model.onnx">>

Entry(kind, size, src, pad, eos) ==
    [kind |-> kind, size |-> size, src |-> src, pad_token |-> pad, eos_token |-> eos]

DirEntry == Entry("dir", 0, None, None, None)
PlainFile(size) == Entry("file", size, "external", None, None)
SymlinkToFile(size) == Entry("link", size, "external", None, None)
OtherEntry == Entry("other", 0, "external", None, None)

EmptyTree == [p \in {} |-> DirEntry]

\* tree with entry e at path p (created or overwritten)
WriteEntry(tree, p, e) ==
    [q \in (DOMAIN tree) \cup {p} |-> IF q = p THEN e ELSE tree[q]]

AbsentDir == [kind |-> "absent", tree |-> EmptyTree]
RegularFileAtPath == [kind |-> "file", tree |-> EmptyTree]
EmptyDir == [kind |-> "dir", tree |-> EmptyTree]

\* an output directory left by earlier, unrelated activity
UsedDir ==
    [kind |-> "dir",
     tree |-> WriteEntry(WriteEntry(WriteEntry(EmptyTree,
                  <<DirName>>, DirEntry),
                  <<DirName, FileName>>, PlainFile(1)),
                  TokFile, Entry("file", 1, "old/model", "<old>", "<old>"))]

InitialDirs == {AbsentDir, RegularFileAtPath, EmptyDir, UsedDir}

----------------------------------------------------------------------------
(* Pure functions of the script                                            *)

\* variant: Path.mkdir(parents=True) without exist_ok
mkdir_no_exist_ok(d) ==
    CASE d.kind = "absent" -> [raised |-> FALSE, fs |-> [d EXCEPT !.kind = "dir"]]
      [] OTHER             -> [raised |-> TRUE, fs |-> d]

\* Path.mkdir(parents=True, exist_ok=True)
mkdir(d) ==
    CASE d.kind = "absent" -> [raised |-> FALSE, fs |-> [d EXCEPT !.kind = "dir"]]
      [] d.kind = "dir"    -> [raised |-> FALSE, fs |-> d]
      [] OTHER             -> [raised |-> TRUE, fs |-> d]

\* variant: the pad token is left as loaded
resolve_pad_token_skipped(tok) == tok

\* lines 59-60
resolve_pad_token(tok) ==
    IF tok.pad_token = None
    THEN [tok EXCEPT !.pad_token = tok.eos_token]
    ELSE tok

\* tokenizer.save_pretrained(output_path)
save_tokenizer(tree, tok) ==
    WriteEntry(tree, TokFile,
               Entry("file", TokFileSize, tok.src, tok.pad_token, tok.eos_token))

\* variant: the converted model is saved outside the output directory
save_onnx_elsewhere(tree, model_id) == tree

\* onnx_model.save_pretrained(output_path)
save_onnx(tree, model_id) ==
    WriteEntry(tree, OnnxFile, Entry("file", OnnxFileSize, model_id, None, None))

Children(tree, dir) ==
    {p \in DOMAIN tree : Len(p) = Len(dir) + 1 /\ SubSeq(p, 1, Len(dir)) = dir}

\* variant: path.glob('*'), the direct children only
glob_top_level(tree, dir) == Children(tree, dir)

\* path.rglob('*'): every entry below dir, descending into directories
RECURSIVE rglob(_, _)
rglob(tree, dir) ==
    LET ch == Children(tree, dir)
    IN  ch \cup UNION {rglob(tree, c) : c \in {x \in ch : tree[x].kind = "dir"}}

\* Path.is_file(): true of regular files and of symlinks to regular files
is_file(e) == e.kind \in {"file", "link"}

\* the accumulation loop of lines 134-137
RECURSIVE SumSizes(_, _)
SumSizes(tree, S) ==
    IF S = {} THEN 0
    ELSE LET p == CHOOSE x \in S : TRUE
         IN  (IF is_file(tree[p]) THEN tree[p].size ELSE 0)
             + SumSizes(tree, S \ {p})

\* round(n / d, 0) as Python rounds a float: to nearest, ties to even
RoundHalfEven(n, d) ==
    LET q == n \div d
        r == n % d
    IN  IF 2 * r < d THEN q
        ELSE IF 2 * r > d THEN q + 1
        ELSE IF q % 2 = 0 THEN q ELSE q + 1

\* round(total_size / (1024 * 1024), 2), as a count of hundredths of a MB
round2(total_size) == RoundHalfEven(total_size * 100, MB)

get_dir_size(tree) == round2(SumSizes(tree, rglob(tree, <<>>)))

----------------------------------------------------------------------------
(* State machine                                                           *)

NoArgs == [model_id |-> None, verify |-> FALSE]

NoPrev ==
    [valid |-> FALSE, args |-> NoArgs, trace |-> <<>>, log |-> <<>>,
     stdout |-> <<>>, reported |-> <<>>, result |-> None, dirAfter |-> AbsentDir]

Init ==
    /\ pc = "idle"
    /\ args = NoArgs
    /\ fs \in InitialDirs
    /\ tokenizer = NoTokenizer
    /\ trace = <<>>
    /\ log = <<>>
    /\ stdout = <<>>
    /\ reported = <<>>
    /\ prev = NoPrev
    /\ sizeResult = <<>>

Outcomes == {"ok", "exc"}

\* an external call op inside the try block of export_lfm2_to_onnx:
\* on "exc" control moves to the except clause of line 100
Call(op, outcome, next) ==
    /\ trace' = Append(trace, <<op, outcome>>)
    /\ pc' = IF outcome = "ok" THEN next ELSE "except"

\* lines 163-183: parse the arguments and call export_lfm2_to_onnx
Main ==
    /\ pc = "idle"
    /\ \E m \in ModelIds, v \in BOOLEAN :
          args' = [model_id |-> m, verify |-> v]
    /\ pc' = "mkdir"
    /\ UNCHANGED <<fs, tokenizer, trace, log, stdout, reported, prev, sizeResult>>

\* lines 47-51: outside the try block, so a failure propagates unlogged
Mkdir ==
    /\ pc = "mkdir"
    /\ LET r == mkdir(fs)
       IN  /\ fs' = r.fs
           /\ trace' = Append(trace, <<"mkdir", IF r.raised THEN "exc" ELSE "ok">>)
           /\ pc' = IF r.raised THEN "raised" ELSE "load_tokenizer"
    /\ log' = Append(log, "INFO: Starting LFM2-350M ONNX export")
    /\ UNCHANGED <<args, tokenizer, stdout, reported, prev, sizeResult>>

\* lines 55-56
LoadTokenizer ==
    /\ pc = "load_tokenizer"
    /\ \E o \in Outcomes :
          /\ Call("load_tokenizer", o, "set_pad_token")
          /\ tokenizer' = IF o = "ok" THEN HubTokenizer(args.model_id) ELSE tokenizer
    /\ log' = Append(log, "INFO: Loading tokenizer...")
    /\ UNCHANGED <<args, fs, stdout, reported, prev, sizeResult>>

\* lines 58-60
SetPadToken ==
    /\ pc = "set_pad_token"
    /\ tokenizer' = resolve_pad_token(tokenizer)
    /\ pc' = "save_tokenizer"
    /\ UNCHANGED <<args, fs, trace, log, stdout, reported, prev, sizeResult>>

\* lines 62-64
SaveTokenizer ==
    /\ pc = "save_tokenizer"
    /\ \E o \in Outcomes :
          /\ Call("save_tokenizer", o, "load_model")
          /\ fs' = IF o = "ok"
                   THEN [fs EXCEPT !.tree = save_tokenizer(fs.tree, tokenizer)]
                   ELSE fs
          /\ log' = IF o = "ok" THEN Append(log, "INFO: Tokenizer saved") ELSE log
    /\ UNCHANGED <<args, tokenizer, stdout, reported, prev, sizeResult>>

\* lines 66-73
LoadModel ==
    /\ pc = "load_model"
    /\ \E o \in Outcomes : Call("load_model", o, "convert")
    /\ log' = Append(log, "INFO: Loading PyTorch model...")
    /\ UNCHANGED <<args, fs, tokenizer, stdout, reported, prev, sizeResult>>

\* lines 75-83
ConvertOnnx ==
    /\ pc = "convert"
    /\ \E o \in Outcomes : Call("convert", o, "save_onnx")
    /\ log' = Append(log, "INFO: Exporting to ONNX format...")
    /\ UNCHANGED <<args, fs, tokenizer, stdout, reported, prev, sizeResult>>

\* lines 85-87
SaveOnnx ==
    /\ pc = "save_onnx"
    /\ \E o \in Outcomes :
          /\ Call("save_onnx", o, "call_verify")
          /\ fs' = IF o = "ok"
                   THEN [fs EXCEPT !.tree = save_onnx(fs.tree, args.model_id)]
                   ELSE fs
          /\ log' = IF o = "ok" THEN Append(log, "INFO: ONNX model saved") ELSE log
    /\ UNCHANGED <<args, tokenizer, stdout, reported, prev, sizeResult>>

\* variant: verification only when --verify is given
CallVerifyIfFlag ==
    /\ pc = "call_verify"
    /\ log' = IF args.verify THEN Append(log, "INFO: Verifying ONNX export...") ELSE log
    /\ pc' = IF args.verify THEN "verify_reload" ELSE "log_success"
    /\ UNCHANGED <<args, fs, tokenizer, trace, stdout, reported, prev, sizeResult>>

\* lines 89-91: the call is unconditional, args.verify is never passed in
CallVerify ==
    /\ pc = "call_verify"
    /\ log' = Append(log, "INFO: Verifying ONNX export...")
    /\ pc' = "verify_reload"
    /\ UNCHANGED <<args, fs, tokenizer, trace, stdout, reported, prev, sizeResult>>

\* an external call op inside the try block of verify_export:
\* on "exc" control moves to the except clause of line 128
VerifyCall(op, outcome, next) ==
    /\ trace' = Append(trace, <<op, outcome>>)
    /\ pc' = IF outcome = "ok" THEN next ELSE "verify_except"

\* line 108
VerifyReload ==
    /\ pc = "verify_reload"
    /\ \E o \in Outcomes : VerifyCall("verify_reload", o, "verify_tokenize")
    /\ UNCHANGED <<args, fs, tokenizer, log, stdout, reported, prev, sizeResult>>

\* lines 110-112
VerifyTokenize ==
    /\ pc = "verify_tokenize"
    /\ \E o \in Outcomes : VerifyCall("verify_tokenize", o, "verify_generate")
    /\ UNCHANGED <<args, fs, tokenizer, log, stdout, reported, prev, sizeResult>>

\* lines 114-123
VerifyGenerate ==
    /\ pc = "verify_generate"
    /\ \E o \in Outcomes : VerifyCall("verify_generate", o, "verify_decode")
    /\ UNCHANGED <<args, fs, tokenizer, log, stdout, reported, prev, sizeResult>>

\* lines 125-126, then the return to line 93
VerifyDecode ==
    /\ pc = "verify_decode"
    /\ \E o \in Outcomes :
          /\ VerifyCall("verify_decode", o, "log_success")
          /\ log' = IF o = "ok"
                    THEN Append(log, "INFO: Verification successful")
                    ELSE log
    /\ UNCHANGED <<args, fs, tokenizer, stdout, reported, prev, sizeResult>>

\* variant: a failed verification is tried again
VerifyExceptRetry ==
    /\ pc = "verify_except"
    /\ log' = Append(log, "WARNING: Model verification failed")
    /\ pc' = "verify_reload"
    /\ UNCHANGED <<args, fs, tokenizer, trace, stdout, reported, prev, sizeResult>>

\* lines 128-130: the exception is swallowed and verify_export returns
VerifyExcept ==
    /\ pc = "verify_except"
    /\ log' = log \o <<"WARNING: Model verification failed",
                       "WARNING: The model was exported but may have issues">>
    /\ pc' = "log_success"
    /\ UNCHANGED <<args, fs, tokenizer, trace, stdout, reported, prev, sizeResult>>

\* lines 93-94
LogSuccess ==
    /\ pc = "log_success"
    /\ log' = log \o <<"INFO: export completed successfully", "INFO: Model saved to">>
    /\ pc' = "log_size"
    /\ UNCHANGED <<args, fs, tokenizer, trace, stdout, reported, prev, sizeResult>>

\* line 95: get_dir_size runs inside the try block; stat() may raise OSError
LogSize ==
    /\ pc = "log_size"
    /\ \E o \in Outcomes :
          /\ Call("get_dir_size", o, "print_usage")
          /\ reported' = IF o = "ok" THEN <<get_dir_size(fs.tree)>> ELSE reported
          /\ log' = IF o = "ok" THEN Append(log, "INFO: Model size") ELSE log
    /\ UNCHANGED <<args, fs, tokenizer, stdout, prev, sizeResult>>

\* lines 97-98 and 140-161: print runs inside the try block and may raise
PrintUsage ==
    /\ pc = "print_usage"
    /\ \E o \in Outcomes :
          /\ trace' = Append(trace, <<"print_usage", o>>)
          /\ pc' = IF o = "ok" THEN "returned" ELSE "except"
          /\ stdout' = IF o = "ok" THEN Append(stdout, "USAGE INSTRUCTIONS") ELSE stdout
    /\ UNCHANGED <<args, fs, tokenizer, log, reported, prev, sizeResult>>

\* variant: the except clause logs and returns instead of re-raising
ExceptHandlerSwallow ==
    /\ pc = "except"
    /\ log' = Append(log, "ERROR: Export failed")
    /\ pc' = "returned"
    /\ UNCHANGED <<args, fs, tokenizer, trace, stdout, reported, prev, sizeResult>>

\* variant: the except clause empties the output directory before re-raising
ExceptHandlerCleanup ==
    /\ pc = "except"
    /\ log' = Append(log, "ERROR: Export failed")
    /\ fs' = [fs EXCEPT !.tree = EmptyTree]
    /\ pc' = "raised"
    /\ UNCHANGED <<args, tokenizer, trace, stdout, reported, prev, sizeResult>>

\* lines 100-102
ExceptHandler ==
    /\ pc = "except"
    /\ log' = Append(log, "ERROR: Export failed")
    /\ pc' = "raised"
    /\ UNCHANGED <<args, fs, tokenizer, trace, stdout, reported, prev, sizeResult>>

\* lines 185-186: the process ends; only the directory on disk survives
Exit ==
    /\ pc \in {"returned", "raised"}
    /\ prev' = [valid |-> TRUE, args |-> args, trace |-> trace, log |-> log,
                stdout |-> stdout, reported |-> reported, result |-> pc,
                dirAfter |-> fs]
    /\ pc' = "idle"
    /\ args' = NoArgs
    /\ tokenizer' = NoTokenizer
    /\ trace' = <<>>
    /\ log' = <<>>
    /\ stdout' = <<>>
    /\ reported' = <<>>
    /\ UNCHANGED <<fs, sizeResult>>

Next ==
    \/ Main
    \/ Mkdir
    \/ LoadTokenizer
    \/ SetPadToken
    \/ SaveTokenizer
    \/ LoadModel
    \/ ConvertOnnx
    \/ SaveOnnx
    \/ CallVerify
    \/ VerifyReload
    \/ VerifyTokenize
    \/ VerifyGenerate
    \/ VerifyDecode
    \/ VerifyExcept
    \/ LogSuccess
    \/ LogSize
    \/ PrintUsage
    \/ ExceptHandler
    \/ Exit

Spec == Init /\ [][Next]_vars

----------------------------------------------------------------------------
(* get_dir_size on arbitrary directory trees                               *)
(*                                                                         *)
(* The directory is populated by filesystem operations outside the script  *)
(* and measured by a call of get_dir_size(path).                           *)

Dirs(tree) == {<<>>} \cup {p \in DOMAIN tree : tree[p].kind = "dir"}

InitSize ==
    /\ pc = "idle"
    /\ args = NoArgs
    /\ fs = EmptyDir
    /\ tokenizer = NoTokenizer
    /\ trace = <<>>
    /\ log = <<>>
    /\ stdout = <<>>
    /\ reported = <<>>
    /\ prev = NoPrev
    /\ sizeResult = <<>>

\* external: a subdirectory appears
CreateDir ==
    /\ \E parent \in Dirs(fs.tree) :
          LET p == Append(parent, DirName)
          IN  /\ Len(p) <= MaxDepth
              /\ p \notin DOMAIN fs.tree
              /\ fs' = [fs EXCEPT !.tree = WriteEntry(fs.tree, p, DirEntry)]
    /\ sizeResult' = <<>>
    /\ UNCHANGED <<pc, args, tokenizer, trace, log, stdout, reported, prev>>

\* external: a regular file, a symlink to a regular file, or some other
\* non-directory entry (socket, fifo, dangling symlink) appears
CreateFile ==
    /\ \E parent \in Dirs(fs.tree) :
          LET p == Append(parent, FileName)
          IN  /\ Len(p) <= MaxDepth
              /\ p \notin DOMAIN fs.tree
              /\ \E e \in {PlainFile(s) : s \in Sizes}
                          \cup {SymlinkToFile(s) : s \in Sizes}
                          \cup {OtherEntry} :
                    fs' = [fs EXCEPT !.tree = WriteEntry(fs.tree, p, e)]
    /\ sizeResult' = <<>>
    /\ UNCHANGED <<pc, args, tokenizer, trace, log, stdout, reported, prev>>

\* lines 132-138: a call get_dir_size(path) that returns
MeasureDir ==
    /\ sizeResult = <<>>
    /\ sizeResult' = <<get_dir_size(fs.tree)>>
    /\ UNCHANGED <<pc, args, fs, tokenizer, trace, log, stdout, reported, prev>>

NextSize ==
    \/ CreateDir
    \/ CreateFile
    \/ MeasureDir

SpecSize == InitSize /\ [][NextSize]_vars

----------------------------------------------------------------------------
(* Vocabulary of the properties                                            *)

Attempted(op) == \E i \in 1..Len(trace) : trace[i][1] = op
Failed(op) == \E i \in 1..Len(trace) : trace[i] = <<op, "exc">>
Succeeded(op) == \E i \in 1..Len(trace) : trace[i] = <<op, "ok">>
Count(op) == Cardinality({i \in 1..Len(trace) : trace[i][1] = op})
Logged(m) == \E i \in 1..Len(log) : log[i] = m

Banner == "INFO: export completed successfully"
ExportFailed == "ERROR: Export failed"
VerifyWarning == "WARNING: Model verification failed"

AcquisitionOps ==
    {"load_tokenizer", "save_tokenizer", "load_model", "convert", "save_onnx"}
VerifyOps ==
    {"verify_reload", "verify_tokenize", "verify_generate", "verify_decode"}
LateOps == {"load_model", "convert", "save_onnx"}
WorkflowOps ==
    {"load_tokenizer", "save_tokenizer", "load_model", "convert", "save_onnx",
     "verify_reload", "verify_generate"}

Finished == pc \in {"returned", "raised"}

\* two runs met the same environment: no call had different outcomes in them
Compatible(t1, t2) ==
    \A i \in 1..Len(t1), j \in 1..Len(t2) :
        t1[i][1] = t2[j][1] => t1[i][2] = t2[j][2]

\* sum of f over the finite set S
RECURSIVE SumFn(_, _)
SumFn(f, S) ==
    IF S = {} THEN 0
    ELSE LET x == CHOOSE y \in S : TRUE IN f[x] + SumFn(f, S \ {x})

\* total bytes of the entries of the given kinds anywhere in the tree
BytesOfKinds(tree, kinds) ==
    LET sizes == {tree[p].size : p \in DOMAIN tree}
        n(s) == Cardinality({p \in DOMAIN tree :
                                tree[p].kind \in kinds /\ tree[p].size = s})
    IN  SumFn([s \in sizes |-> s * n(s)], sizes)

----------------------------------------------------------------------------
(* Properties                                                              *)

\* C1: once an acquisition or conversion step (tokenizer fetch, tokenizer
\* save, model load, ONNX conversion, ONNX save) has raised, the run is in
\* or past the except clause, has emitted neither the success banner nor
\* the usage instructions, and ends by raising with "Export failed" logged.
C1_FailureLoggedAndReraised ==
    (\E op \in AcquisitionOps : Failed(op)) =>
        /\ pc \in {"except", "raised"}
        /\ ~Logged(Banner)
        /\ stdout = <<>>
        /\ (pc = "raised" => Logged(ExportFailed))

C1_Witness ==
    /\ pc = "raised"
    /\ Failed("save_onnx")
    /\ Logged(ExportFailed)

\* C2: a run in which a verification call raised logs the warning, logs the
\* success banner, prints the usage instructions and returns normally.
C2_VerifyFailureStillSucceeds ==
    ((\E op \in VerifyOps : Failed(op)) /\ Finished) =>
        /\ Logged(VerifyWarning)
        /\ Logged(Banner)
        /\ stdout # <<>>
        /\ pc = "returned"

\* C3: when export_lfm2_to_onnx has returned normally, the output directory
\* exists and holds the tokenizer file and the converted-model file of this
\* run's model, both save_pretrained calls having completed.
C3_SuccessImpliesArtifacts ==
    pc = "returned" =>
        /\ fs.kind = "dir"
        /\ Succeeded("save_tokenizer")
        /\ Succeeded("save_onnx")
        /\ TokFile \in DOMAIN fs.tree
        /\ OnnxFile \in DOMAIN fs.tree
        /\ fs.tree[TokFile].kind = "file"
        /\ fs.tree[OnnxFile].kind = "file"
        /\ fs.tree[TokFile].src = args.model_id
        /\ fs.tree[OnnxFile].src = args.model_id

C3_Witness ==
    /\ pc = "returned"
    /\ args.model_id = "org/no-pad"
    /\ <<DirName, FileName>> \in DOMAIN fs.tree

\* C4 (as claimed): when the loaded tokenizer had no pad token, the saved
\* tokenizer configuration has a defined pad token equal to the
\* end-of-sequence token.
C4_PadDefinedAndEqualsEos ==
    (Succeeded("save_tokenizer") /\ HubTokenizer(args.model_id).pad_token = None) =>
        /\ fs.tree[TokFile].pad_token # None
        /\ fs.tree[TokFile].pad_token = HubTokenizer(args.model_id).eos_token

\* C4 (amended): when the loaded tokenizer had no pad token, the saved
\* tokenizer configuration has the end-of-sequence token as pad token; the
\* pad token is undefined when the end-of-sequence token is undefined.
C4_PadEqualsEos ==
    (Succeeded("save_tokenizer") /\ HubTokenizer(args.model_id).pad_token = None) =>
        /\ fs.tree[TokFile].pad_token = HubTokenizer(args.model_id).eos_token
        /\ fs.tree[TokFile].eos_token = HubTokenizer(args.model_id).eos_token

C4_Witness ==
    /\ Succeeded("save_tokenizer")
    /\ args.model_id = "org/no-eos"
    /\ fs.tree[TokFile].pad_token = None

\* C5 (as claimed): the value returned by get_dir_size is non-negative and
\* equals the sum of the sizes of all regular files under the directory
\* (h hundredths of a MB are h * MB / 100 bytes).
C5_SizeEqualsSum ==
    sizeResult # <<>> =>
        /\ sizeResult[1] >= 0
        /\ sizeResult[1] * MB = 100 * BytesOfKinds(fs.tree, {"file"})

\* C5 (amended): the value returned by get_dir_size is non-negative and
\* equals the sum of the sizes of all entries under the directory that
\* is_file() accepts (regular files, and symlinks to regular files with the
\* size of their target), divided by 1024 * 1024 and rounded to two decimal
\* places, ties to even.
C5_SizeIsRoundedSum ==
    sizeResult # <<>> =>
        /\ sizeResult[1] >= 0
        /\ LET b == 100 * BytesOfKinds(fs.tree, {"file", "link"})
               h == sizeResult[1]
           IN  /\ 2 * (h * MB - b) <= MB
               /\ 2 * (b - h * MB) <= MB
               /\ (2 * (h * MB - b) = MB \/ 2 * (b - h * MB) = MB) => h % 2 = 0

C5_Witness ==
    /\ sizeResult = <<38>>
    /\ <<DirName, DirName, FileName>> \in DOMAIN fs.tree
    /\ BytesOfKinds(fs.tree, {"file", "link"}) = 393216

C7_RerunOverwrites ==
    /\ Failed("mkdir") => fs.kind = "file"
    /\ (prev.valid /\ prev.result = "returned" /\ pc = "returned" /\ prev.args = args)
          => fs = prev.dirAfter

C7_Witness ==
    /\ prev.valid
    /\ prev.result = "returned"
    /\ pc = "returned"
    /\ prev.args = args
    /\ Succeeded("mkdir")
    /\ <<DirName, FileName>> \in DOMAIN fs.tree

\* C8: the model load never starts before the tokenizer is saved, and once
\* the model load, the conversion or the ONNX save has raised, the
\* tokenizer file of this run is in the output directory, during the abort
\* and after the process has ended.
C8_TokenizerSurvivesFailure ==
    /\ \A i \in 1..Len(trace) :
          trace[i][1] \in LateOps =>
              \E j \in 1..(i - 1) : trace[j] = <<"save_tokenizer", "ok">>
    /\ (\E op \in LateOps : Failed(op)) =>
          /\ TokFile \in DOMAIN fs.tree
          /\ fs.tree[TokFile].kind = "file"
          /\ fs.tree[TokFile].src = args.model_id
    /\ (/\ pc = "idle"
        /\ prev.valid
        /\ \E i \in 1..Len(prev.trace) :
              prev.trace[i][1] \in LateOps /\ prev.trace[i][2] = "exc")
          => /\ prev.result = "raised"
             /\ TokFile \in DOMAIN fs.tree
             /\ fs.tree[TokFile].src = prev.args.model_id

C8_Witness ==
    /\ pc = "idle"
    /\ prev.valid
    /\ prev.trace[Len(prev.trace)] = <<"convert", "exc">>
    /\ fs.tree[TokFile].src = prev.args.model_id
    /\ OnnxFile \notin DOMAIN fs.tree

\* C9 (as claimed): no operation is attempted twice in a run, and in a run
\* that returns normally every operation is attempted exactly once.
C9_ExactlyOnceWhenSuccessful ==
    /\ \A op \in WorkflowOps : Count(op) <= 1
    /\ pc = "returned" => \A op \in WorkflowOps : Count(op) = 1

\* C9 (amended): no operation is attempted twice in a run; in a run that
\* returns normally the five acquisition and conversion operations and the
\* verification reload are attempted exactly once, and the sample
\* generation is attempted exactly once unless the verification reload or
\* the tokenisation of the test prompt raised, in which case it is not
\* attempted.
C9_AtMostOnce ==
    /\ \A op \in WorkflowOps \cup VerifyOps \cup {"mkdir", "get_dir_size", "print_usage"} :
          Count(op) <= 1
    /\ pc = "returned" =>
          /\ \A op \in WorkflowOps \ {"verify_generate"} : Count(op) = 1
          /\ Count("verify_generate") =
                IF Failed("verify_reload") \/ Failed("verify_tokenize") THEN 0 ELSE 1

C9_Witness ==
    /\ pc = "returned"
    /\ Failed("verify_reload")
    /\ Count("verify_generate") = 0
    /\ Count("save_onnx") = 1

\* C10: once the success banner is logged, the run neither logs
\* "Export failed" nor raises.
C10_SuccessExcludesFailure ==
    Logged(Banner) => (~Logged(ExportFailed) /\ pc # "raised")

====
